---- MODULE Spec2Model ----
(***************************************************************************)
(* Model of the tstack-blog reference repository.                          *)
(*                                                                         *)
(* Part I   the scaffold generator described in docs/CLI_SCAFFOLD_GUIDE.md *)
(*          (buildContext, the Handlebars templates, the render / write    *)
(*          loop, the post-generation route registration) together with    *)
(*          BaseRouteFactory.createCrudRoutes as documented in             *)
(*          docs/BASE_ABSTRACTIONS_ARCHITECTURE.md.                        *)
(* Part II  the authorization flow of BaseController.checkAuth.            *)
(* Part III BaseService (src/shared/services/base.service.ts) over one     *)
(*          table, with the hooks of the test suite's subclass.            *)
(* Part IV  the admin panels mounted under /ts-admin, BaseRouteFactory on  *)
(*          arbitrary configurations, ArticleController / ArticleService   *)
(*          create under concurrent requests, UserService passwords.       *)
(*                                                                         *)
(* JavaScript values are modelled as follows: a string that the code takes *)
(* apart is a sequence of one-character strings; a value that may be       *)
(* undefined / null is a set with no element (Undefined) or one element    *)
(* (Some(v)); an array used only through includes() is a set.              *)
(***************************************************************************)
EXTENDS Naturals, Sequences, FiniteSets, TLC

VARIABLES
    options,    \* CLIOptions handed to the generator
    pc,         \* position of the generator run
    context,    \* TemplateContext returned by buildContext (Undefined before)
    files,      \* the rendered `files` object: name -> content or null
    idx,        \* index of the write loop over Object.entries(files)
    written,    \* names passed to writeFile, in order
    routes,     \* routes registered by the generated route file
    mounted,    \* route modules mounted in main.ts by the post-generation step
    request,    \* the request being authorized by BaseController.checkAuth
    authPc,     \* position inside checkAuth
    consulted,  \* the checks checkAuth has evaluated for this request
    outcome,    \* "pending", "allowed" or "denied"
    overrides,  \* the lifecycle hooks the BaseService subclass implements
    table,      \* the rows of the service's table, by id
    nextId,     \* the next value of the serial id column
    calls,      \* number of service calls made so far; also the clock
    svcPc,      \* position inside the current service call
    call,       \* the current call: method, id argument, data argument
    processedData, \* the local processedData of create / update
    dbResult,   \* the rows of the statement's .returning()
    hookTrace,  \* hooks invoked and statements run by the current call, in order
    ret,        \* the value the last call returned
    snapshot,   \* the table as it was when the current call began
    live,       \* last row handed back for each id created and not deleted since
    heap,       \* the ids of the table's rows in the order an unordered select yields them
    heapBefore, \* heap as it was when the current call began
    adminRequest, \* a request to an admin panel: caller, panel, route
    adminPc,      \* position of the request in the panel's chain
    adminOutcome, \* "pending", "401", "403" or "handled"
    crudConfig,   \* a CrudRouteConfig handed to BaseRouteFactory.createCrudRoutes
    articles,     \* the rows of the articles table, by id
    articleNextId, \* the next value of the articles id column
    artRequest,   \* per request slot: the create request being served
    artPc,        \* per request slot: position inside ArticleController.create
    artResult,    \* per request slot: the row the insert returned
    artOutcome,   \* per request slot: how the request ended
    artServed,    \* number of create requests accepted so far
    users,        \* the rows of the users table, by id
    supplied,     \* per user id: the password most recently supplied for it
    userCalls     \* number of UserService calls made so far

scaffoldVars == <<options, pc, context, files, idx, written, routes, mounted>>
authVars == <<request, authPc, consulted, outcome>>
svcVars == <<overrides, table, nextId, calls, svcPc, call, processedData,
             dbResult, hookTrace, ret, snapshot, live, heap, heapBefore>>
adminVars == <<adminRequest, adminPc, adminOutcome>>
factoryVars == <<crudConfig>>
articleVars == <<articles, articleNextId, artRequest, artPc, artResult, artOutcome, artServed>>
userVars == <<users, supplied, userCalls>>
vars == <<options, pc, context, files, idx, written, routes, mounted,
          request, authPc, consulted, outcome,
          overrides, table, nextId, calls, svcPc, call, processedData,
          dbResult, hookTrace, ret, snapshot, live, heap, heapBefore,
          adminRequest, adminPc, adminOutcome, crudConfig,
          articles, articleNextId, artRequest, artPc, artResult, artOutcome, artServed,
          users, supplied, userCalls>>

\* what a part of the model leaves alone: the variables of the other parts
restVars == <<adminVars, factoryVars, articleVars, userVars>>
notScaffoldVars == <<authVars, svcVars, adminVars, factoryVars, articleVars, userVars>>
notAuthVars == <<scaffoldVars, svcVars, adminVars, factoryVars, articleVars, userVars>>
notSvcVars == <<scaffoldVars, authVars, adminVars, factoryVars, articleVars, userVars>>

----------------------------------------------------------------------------
(* JavaScript / Handlebars value helpers *)

Undefined == {}
Some(v) == {v}
IsDefined(o) == o # {}
Get(o) == CHOOSE v \in o : TRUE

\* `x || d` for an optional array: an array, even an empty one, is truthy
OrElse(o, d) == IF IsDefined(o) THEN Get(o) ELSE d

\* truthiness of an optional string (undefined and "" are falsy)
TruthyString(o) == IsDefined(o) /\ Get(o) # <<>>

\* Handlebars {{#if v}} on an optional array: undefined and [] are falsy
HbsIfArray(o) == IsDefined(o) /\ Get(o) # <<>>

\* Handlebars path lookup: a path missing from the context resolves to undefined
HbsLookup(ctx, field) == IF field \in DOMAIN ctx THEN Some(ctx[field]) ELSE Undefined

LowerLetters == <<"a","b","c","d","e","f","g","h","i","j","k","l","m",
                  "n","o","p","q","r","s","t","u","v","w","x","y","z">>
UpperLetters == <<"A","B","C","D","E","F","G","H","I","J","K","L","M",
                  "N","O","P","Q","R","S","T","U","V","W","X","Y","Z">>

IsUpper(c) == \E i \in DOMAIN UpperLetters : UpperLetters[i] = c
IsLower(c) == \E i \in DOMAIN LowerLetters : LowerLetters[i] = c
LowerChar(c) ==
    IF IsUpper(c)
    THEN LowerLetters[CHOOSE i \in DOMAIN UpperLetters : UpperLetters[i] = c]
    ELSE c
UpperChar(c) ==
    IF IsLower(c)
    THEN UpperLetters[CHOOSE i \in DOMAIN LowerLetters : LowerLetters[i] = c]
    ELSE c

toLowerCase(s) == [i \in DOMAIN s |-> LowerChar(s[i])]

\* str.charAt(0).toUpperCase() + str.slice(1)
capitalize(s) == IF s = <<>> THEN s ELSE <<UpperChar(s[1])>> \o Tail(s)

\* append "s"; y -> ies; s / x / ch / sh -> es
pluralize(s) ==
    LET n == Len(s) IN
    IF n = 0 THEN <<"s">>
    ELSE IF s[n] = "y" THEN SubSeq(s, 1, n - 1) \o <<"i", "e", "s">>
    ELSE IF s[n] \in {"s", "x"} THEN s \o <<"e", "s">>
    ELSE IF n >= 2 /\ s[n] = "h" /\ s[n - 1] \in {"c", "s"} THEN s \o <<"e", "s">>
    ELSE s \o <<"s">>

RECURSIVE toSnakeCase(_)
\* camelCase -> snake_case: an upper-case letter becomes "_" and its lower case
toSnakeCase(s) ==
    IF s = <<>> THEN <<>>
    ELSE (IF IsUpper(s[1]) THEN <<"_", LowerChar(s[1])>> ELSE <<s[1]>>)
         \o toSnakeCase(Tail(s))

\* A comma-separated option value is a sequence of tokens, "," being the separator.
FirstComma(s) ==
    IF \E i \in DOMAIN s : s[i] = ","
    THEN CHOOSE i \in DOMAIN s : s[i] = "," /\ \A j \in 1..(i - 1) : s[j] # ","
    ELSE 0

Piece(s) == IF s = <<>> THEN "" ELSE s[1]

RECURSIVE split(_)
\* String.prototype.split(",")
split(s) ==
    LET i == FirstComma(s) IN
    IF i = 0 THEN <<Piece(s)>>
    ELSE <<Piece(SubSeq(s, 1, i - 1))>> \o split(SubSeq(s, i + 1, Len(s)))

Range(s) == {s[i] : i \in DOMAIN s}

----------------------------------------------------------------------------
(* Domains *)

RouteKinds == {"getAll", "getById", "create", "update", "delete"}
ReadKinds == {"getAll", "getById"}
MutatingKinds == {"create", "update", "delete"}
AuthTypes == {"none", "ownership", "role", "custom"}
HookKinds == {"beforeCreate", "afterCreate", "beforeUpdate",
              "afterUpdate", "beforeDelete", "afterDelete"}

\* mutant: the migration entry precedes the test entry
FileOrder_MigrationBeforeTest ==
    <<"model", "dto", "service", "controller", "route",
      "adminRoute", "migration", "test">>

\* mutant: the controller entry comes first
FileOrder_ControllerFirst ==
    <<"controller", "model", "dto", "service", "route",
      "adminRoute", "test", "migration">>

\* Object.entries(files) follows the insertion order of the object literal
FileOrder == <<"model", "dto", "service", "controller", "route",
               "adminRoute", "test", "migration">>

DefaultOwnershipField == <<"u", "s", "e", "r", "I", "d">>

\* Bounds of the inputs the generator is run on
MaxPublicRoutes == 1
MaxDisabledRoutes == 2

EntityNameInputs == {<<"C", "i", "t", "y">>}
OwnershipFieldInputs == {Undefined, Some(<<>>), Some(<<"o", "w", "n", "I", "d">>)}
RolesInputs == {Undefined, Some(<<>>), Some(<<"admin", ",", "superadmin">>)}
HooksInputs == {Some(<<"beforeCreate", ",", "afterDelete">>)}
AuthInputs == {Undefined} \cup {Some(a) : a \in AuthTypes}
PublicRoutesInputs ==
    {Undefined} \cup
    {Some(s) : s \in {t \in SUBSET RouteKinds : Cardinality(t) <= MaxPublicRoutes}}
DisabledRoutesInputs ==
    {Undefined} \cup
    {Some(s) : s \in {t \in SUBSET RouteKinds : Cardinality(t) <= MaxDisabledRoutes}}

CLIOptions ==
    [entityName : EntityNameInputs,
     withAdmin : BOOLEAN, withTests : BOOLEAN, skipMigration : BOOLEAN,
     publicRoutes : PublicRoutesInputs,
     disabledRoutes : DisabledRoutesInputs,
     auth : AuthInputs,
     ownershipField : OwnershipFieldInputs,
     roles : RolesInputs,
     hooks : HooksInputs]

----------------------------------------------------------------------------
(* Template variable calculation: buildContext *)

\* mutant: the default is applied whatever the auth type
ownershipFieldOf_AlwaysDefault(opts) ==
    IF TruthyString(opts.ownershipField) THEN opts.ownershipField
    ELSE Some(DefaultOwnershipField)

\* mutant: no default is applied
ownershipFieldOf_NoDefault(opts) ==
    IF TruthyString(opts.ownershipField) THEN opts.ownershipField ELSE Undefined

\* options.ownershipField || (options.auth === "ownership" ? "userId" : undefined)
ownershipFieldOf(opts) ==
    IF TruthyString(opts.ownershipField) THEN opts.ownershipField
    ELSE IF opts.auth = Some("ownership") THEN Some(DefaultOwnershipField)
    ELSE Undefined

\* options.auth || "none"
authTypeOf(opts) == IF IsDefined(opts.auth) THEN Get(opts.auth) ELSE "none"

\* options.roles ? options.roles.split(",") : undefined
rolesOf(opts) ==
    IF TruthyString(opts.roles) THEN Some(split(Get(opts.roles))) ELSE Undefined

\* options.hooks ? options.hooks.split(",") : []
hooksOf(opts) ==
    IF TruthyString(opts.hooks) THEN split(Get(opts.hooks)) ELSE <<>>

\* mutant: the publicRoutes list is not consulted
needsAuthOf_IgnoresPublicCreate(publicRoutes, authType) == authType # "none"

\* !publicRoutes.includes("create") && authType !== "none"
needsAuthOf(publicRoutes, authType) ==
    ("create" \notin publicRoutes) /\ authType # "none"

buildContext(opts) ==
    LET entityName == toLowerCase(opts.entityName)
        EntityName == capitalize(entityName)
        entityNamePlural == pluralize(entityName)
        tableName == entityNamePlural
        ownershipField == ownershipFieldOf(opts)
        ownershipFieldSnake ==
            IF IsDefined(ownershipField)
            THEN Some(toSnakeCase(Get(ownershipField))) ELSE Undefined
        publicRoutes == OrElse(opts.publicRoutes, {})
        disabledRoutes == OrElse(opts.disabledRoutes, {})
        authType == authTypeOf(opts)
        roles == rolesOf(opts)
        hooks == hooksOf(opts)
        hasAuthConfig == authType # "none"
        needsAuth == needsAuthOf(publicRoutes, authType)
        needsUserImport == IsDefined(ownershipField)
        ownershipCheck == authType = "ownership"
        hasPublicGetAll == "getAll" \in publicRoutes
        hasPublicGetById == "getById" \in publicRoutes
        needsCreateOverride == IsDefined(ownershipField)
        hasGetAllOverride == needsUserImport
        hasMiddleware == needsAuth \/ IsDefined(roles)
        hasCustomHandlers == FALSE
    IN  [entityName |-> entityName,
         EntityName |-> EntityName,
         entityNamePlural |-> entityNamePlural,
         tableName |-> tableName,
         ownershipField |-> ownershipField,
         ownershipFieldSnake |-> ownershipFieldSnake,
         publicRoutes |-> publicRoutes,
         disabledRoutes |-> disabledRoutes,
         authType |-> authType,
         roles |-> roles,
         hooks |-> hooks,
         hasAuthConfig |-> hasAuthConfig,
         needsAuth |-> needsAuth,
         needsUserImport |-> needsUserImport,
         ownershipCheck |-> ownershipCheck,
         hasPublicGetAll |-> hasPublicGetAll,
         hasPublicGetById |-> hasPublicGetById,
         needsCreateOverride |-> needsCreateOverride,
         hasGetAllOverride |-> hasGetAllOverride,
         hasMiddleware |-> hasMiddleware,
         hasCustomHandlers |-> hasCustomHandlers]

----------------------------------------------------------------------------
(* The templates: what each rendered file declares *)

modelTemplate(ctx) ==
    [tableName |-> ctx.tableName,
     ownershipColumn |-> IF IsDefined(ctx.ownershipField)
                         THEN ctx.ownershipFieldSnake ELSE Undefined]

dtoTemplate(ctx) ==
    [schemas |-> {"create", "update"}, entity |-> ctx.EntityName]

serviceTemplate(ctx) ==
    [tableName |-> ctx.entityNamePlural,
     userImport |-> ctx.needsUserImport,
     getAllOverride |-> ctx.hasGetAllOverride,
     hookMethods |-> Range(ctx.hooks) \cap HookKinds]

\* the {{#if authConfig.<op>}} block of one operation of the controller's authConfig
controllerAuthEntry(ctx, op) ==
    LET authConfig == HbsLookup(ctx, "authConfig")
        entry == IF IsDefined(authConfig) /\ op \in DOMAIN Get(authConfig)
                 THEN Some(Get(authConfig)[op]) ELSE Undefined
    IN  IF IsDefined(entry)
        THEN Some([roles |-> IF "roles" \in DOMAIN Get(entry)
                             THEN Get(entry).roles ELSE <<>>,
                   ownershipCheck |-> "ownershipCheck" \in DOMAIN Get(entry)
                                      /\ Get(entry).ownershipCheck])
        ELSE Undefined

controllerTemplate(ctx) ==
    [authConfig |->
        IF ctx.hasAuthConfig
        THEN Some([op \in {o \in MutatingKinds : IsDefined(controllerAuthEntry(ctx, o))}
                   |-> Get(controllerAuthEntry(ctx, op))])
        ELSE Undefined,
     createOverride |-> IF ctx.needsCreateOverride THEN ctx.ownershipField ELSE Undefined]

routeTemplate(ctx) ==
    [basePath |-> ctx.entityNamePlural,
     schemas |-> {"create", "update"},
     publicRoutes |-> IF ctx.publicRoutes # {} THEN Some(ctx.publicRoutes) ELSE Undefined,
     disabledRoutes |-> IF ctx.disabledRoutes # {} THEN Some(ctx.disabledRoutes) ELSE Undefined,
     middleware |->
        IF ctx.hasMiddleware
        THEN Some([auth |-> ctx.needsAuth,
                   role |-> IF HbsIfArray(ctx.roles) THEN ctx.roles ELSE Undefined])
        ELSE Undefined]

adminRouteTemplate(ctx) ==
    [baseUrl |-> ctx.entityNamePlural,
     allowedRoles |-> IF HbsIfArray(ctx.roles) THEN ctx.roles ELSE Undefined,
     authMiddleware |-> <<"requireAuth">> \o
                        (IF HbsIfArray(ctx.roles) THEN <<"requireRole">> ELSE <<>>),
     customHandlers |-> ctx.hasCustomHandlers]

testTemplate(ctx) ==
    [ownershipUsers |-> IsDefined(ctx.ownershipField),
     publicGetAll |-> ctx.hasPublicGetAll,
     publicGetById |-> ctx.hasPublicGetById,
     createRequiresAuth |-> ctx.needsAuth,
     nonOwnerDenied |-> ctx.ownershipCheck]

migrationTemplate(ctx) ==
    [tableName |-> ctx.tableName,
     ownershipColumn |-> IF IsDefined(ctx.ownershipField)
                         THEN ctx.ownershipFieldSnake ELSE Undefined]

\* the `files` object literal: a file that is not requested is null
renderFiles(opts, ctx) ==
    [model |-> Some(modelTemplate(ctx)),
     dto |-> Some(dtoTemplate(ctx)),
     service |-> Some(serviceTemplate(ctx)),
     controller |-> Some(controllerTemplate(ctx)),
     route |-> Some(routeTemplate(ctx)),
     adminRoute |-> IF opts.withAdmin THEN Some(adminRouteTemplate(ctx)) ELSE Undefined,
     test |-> IF opts.withTests THEN Some(testTemplate(ctx)) ELSE Undefined,
     migration |-> IF ~opts.skipMigration THEN Some(migrationTemplate(ctx)) ELSE Undefined]

NoFiles == [n \in Range(FileOrder) |-> Undefined]

----------------------------------------------------------------------------
(* BaseRouteFactory.createCrudRoutes, applied to the generated route file *)

\* middleware.auth, middleware.role: "applied to protected routes", in that order
authMiddlewareOf(cfg) ==
    IF IsDefined(cfg.middleware)
    THEN (IF Get(cfg.middleware).auth THEN <<"requireAuth">> ELSE <<>>)
         \o (IF IsDefined(Get(cfg.middleware).role) THEN <<"requireRole">> ELSE <<>>)
    ELSE <<>>

\* mutant: a route listed as public is registered even when it is disabled
routeRegistered_PublicWins(k, disabledRoutes, publicRoutes) ==
    k \notin disabledRoutes \/ k \in publicRoutes

\* mutant: disabledRoutes is honoured for the mutating routes only
routeRegistered_ReadsAlways(k, disabledRoutes, publicRoutes) ==
    k \notin disabledRoutes \/ k \in ReadKinds

\* "Routes in disabledRoutes are NOT registered at all"
routeRegistered(k, disabledRoutes, publicRoutes) == k \notin disabledRoutes

\* middleware.custom: additional middleware, in the order given
customMiddlewareOf(cfg) ==
    IF IsDefined(cfg.middleware) /\ "custom" \in DOMAIN Get(cfg.middleware)
    THEN OrElse(Get(cfg.middleware).custom, <<>>)
    ELSE <<>>

\* mutant: the factory has no public branch
middlewareChain_NoPublicBranch(cfg, k) ==
    authMiddlewareOf(cfg) \o customMiddlewareOf(cfg)
    \o (IF k \in cfg.schemas THEN <<"validate">> ELSE <<>>)

\* mutant: validation comes first
middlewareChain_ValidationFirst(cfg, k) ==
    (IF k \in cfg.schemas THEN <<"validate">> ELSE <<>>)
    \o (IF k \in ReadKinds /\ k \in OrElse(cfg.publicRoutes, {})
        THEN <<>> ELSE authMiddlewareOf(cfg))
    \o customMiddlewareOf(cfg)

\* the middleware chain in front of the controller method of route k:
\* auth + role + custom + validation
middlewareChain(cfg, k) ==
    LET publicRoutes == OrElse(cfg.publicRoutes, {})
        protection == IF k \in ReadKinds /\ k \in publicRoutes
                      THEN <<>> ELSE authMiddlewareOf(cfg)
        validation == IF k \in cfg.schemas THEN <<"validate">> ELSE <<>>
    IN  protection \o customMiddlewareOf(cfg) \o validation

createCrudRoutes(cfg) ==
    LET publicRoutes == OrElse(cfg.publicRoutes, {})
        disabledRoutes == OrElse(cfg.disabledRoutes, {})
    IN  [k \in {r \in RouteKinds : routeRegistered(r, disabledRoutes, publicRoutes)}
         |-> [chain |-> middlewareChain(cfg, k)]]

NoRoutes == [k \in {} |-> [chain |-> <<>>]]

----------------------------------------------------------------------------
(* BaseController.checkAuth: the requests it authorizes *)

UserRoles == {"user", "admin", "moderator", "superadmin"}

\* authConfig[operation]: roles ({} when not specified), ownershipCheck, customCheck
AuthConfigs ==
    [roles : {{}, {"admin"}, {"admin", "superadmin"}},
     ownershipCheck : BOOLEAN,
     customCheck : BOOLEAN]

\* the authenticated user's role, whether ownershipCheck(entity, user.id) holds,
\* whether customCheck(c, entity) returns without throwing, and the operation's rule
Requests ==
    [role : UserRoles, isOwner : BOOLEAN, customPasses : BOOLEAN, rule : AuthConfigs]

NoRequest ==
    [role |-> "user", isOwner |-> FALSE, customPasses |-> FALSE,
     rule |-> [roles |-> {}, ownershipCheck |-> FALSE, customCheck |-> FALSE]]

----------------------------------------------------------------------------
(* BaseService: the table, the DTOs and the subclass's hooks *)

\* bounds of the service runs
MaxCalls == 5
MaxIdArg == 2

\* columns of the table: id, name, description, metadata, createdAt, updatedAt;
\* a nullable column holds Undefined (NULL) or Some(v)
Columns == {"id", "name", "description", "metadata", "createdAt", "updatedAt"}
NullableColumns == {"description", "metadata"}

ColumnValue(c, v) == IF c \in NullableColumns THEN Some(v) ELSE v

\* { ...f, ...g }: the keys of g override those of f
Spread(f, g) ==
    [k \in (DOMAIN f) \cup (DOMAIN g) |-> IF k \in DOMAIN g THEN g[k] ELSE f[k]]

NoData == [k \in {} |-> ""]

\* CreateDTO: name, description?, metadata? (metadata as the set of its keys)
CreateInputs ==
    {[name |-> "a"],
     [name |-> "b", description |-> "d", metadata |-> {"original"}]}

\* UpdateDTO: name?, description?, metadata?
UpdateInputs ==
    {[name |-> "c"],
     [description |-> "e", metadata |-> {"original"}]}

IdInputs == 1..MaxIdArg

\* the subclasses: no hook, all six hooks, the delete hooks only
OverrideInputs == {{}, HookKinds, {"beforeDelete", "afterDelete"}}

\* the hook each method invokes before its statement
beforeHookOf(op) ==
    CASE op = "create" -> "beforeCreate"
      [] op = "update" -> "beforeUpdate"
      [] op = "delete" -> "beforeDelete"

\* mutant: every method invokes afterCreate after its statement
afterHookOf_AlwaysAfterCreate(op) == "afterCreate"

\* the hook each method invokes after its statement
afterHookOf(op) ==
    CASE op = "create" -> "afterCreate"
      [] op = "update" -> "afterUpdate"
      [] op = "delete" -> "afterDelete"

\* TestEntityWithHooksService.beforeCreate: upper-case name, tag the metadata
beforeCreate(data) ==
    Spread(data,
           [name |-> UpperChar(data.name),
            metadata |-> (IF "metadata" \in DOMAIN data THEN data.metadata ELSE {})
                         \cup {"transformedBy"}])

\* TestEntityWithHooksService.beforeUpdate: add the audit trail to the metadata
beforeUpdate(id, data) ==
    Spread(data,
           [metadata |-> (IF "metadata" \in DOMAIN data THEN data.metadata ELSE {})
                         \cup {"lastModifiedId", "modifiedBy"}])

\* the row an INSERT of `values` stores: serial id, column defaults for the rest
insertedRow(id, values, now) ==
    [c \in Columns |->
        IF c = "id" THEN id
        ELSE IF c \in {"createdAt", "updatedAt"} THEN now
        ELSE IF c \in DOMAIN values THEN ColumnValue(c, values[c])
        ELSE Undefined]

\* mutant: columns missing from the SET clause are reset
updatedRow_ResetsMissing(row, set) ==
    [c \in Columns |->
        IF c \in DOMAIN set THEN ColumnValue(c, set[c])
        ELSE IF c \in NullableColumns THEN Undefined ELSE row[c]]

\* the row after UPDATE ... SET `set`: the columns of the SET clause change
updatedRow(row, set) ==
    [c \in Columns |-> IF c \in DOMAIN set THEN ColumnValue(c, set[c]) ELSE row[c]]

\* { ...processedData, updatedAt: new Date() }
setClause(data, now) == Spread(data, [updatedAt |-> now])

\* mutant: a missing row is inserted
dbUpdate_Upsert(tbl, id, set) ==
    IF id \in DOMAIN tbl
    THEN [tbl EXCEPT ![id] = updatedRow(tbl[id], set)]
    ELSE [j \in (DOMAIN tbl) \cup {id} |->
            IF j = id THEN insertedRow(id, set, set.updatedAt) ELSE tbl[j]]

\* db.update(table).set(set).where(eq(table.id, id))
dbUpdate(tbl, id, set) ==
    IF id \in DOMAIN tbl THEN [tbl EXCEPT ![id] = updatedRow(tbl[id], set)] ELSE tbl

\* mutant: the row stays in the table
dbDelete_KeepsRow(tbl, id) == tbl

\* mutant: the rows from the id on are deleted
dbDelete_FromIdOn(tbl, id) == [j \in {i \in DOMAIN tbl : i < id} |-> tbl[j]]

\* db.delete(table).where(eq(table.id, id))
dbDelete(tbl, id) == [j \in (DOMAIN tbl) \ {id} |-> tbl[j]]

\* mutant: success whatever was deleted
success_Always(deleted) == TRUE

\* const success = deleted.length > 0
success(deleted) == deleted # {}

\* the scan order once the rows with the given ids are gone: the rows that
\* stay keep their places relative to each other
heapWithout(h, gone) ==
    LET stays(j) == j \notin gone IN SelectSeq(h, stays)

NoRows == [j \in {} |-> 0]
NoCall == [op |-> "none", id |-> 0, data |-> NoData]

ServiceIdle ==
    /\ overrides = {}
    /\ table = NoRows
    /\ nextId = 1
    /\ calls = 0
    /\ svcPc = "idle"
    /\ call = NoCall
    /\ processedData = NoData
    /\ dbResult = {}
    /\ hookTrace = <<>>
    /\ ret = Undefined
    /\ snapshot = NoRows
    /\ live = NoRows
    /\ heap = <<>>
    /\ heapBefore = <<>>

----------------------------------------------------------------------------
(* The admin panels mounted under /ts-admin *)

\* the routes AdminRouteFactory registers for a panel
AdminRouteKinds ==
    {"list", "new", "create", "show", "edit", "update", "patch", "delete", "bulkDelete"}

\* the routes site-setting.admin.route.ts adds behind requireSuperadmin
ResetRouteKinds == {"reset", "resetAll"}

\* article.admin.route.ts, site-setting.admin.route.ts, user.admin.route.ts
AdminPanels ==
    [articles |->
        [allowedRoles |-> {"superadmin", "admin"},
         authMiddleware |-> <<"requireAuth">>,
         customHandlers |-> {},
         extraRoutes |-> {}],
     site_settings |->
        [allowedRoles |-> {"superadmin", "admin"},
         authMiddleware |-> <<"requireAuth">>,
         customHandlers |-> {"update", "delete"},
         extraRoutes |-> ResetRouteKinds],
     users |->
        [allowedRoles |-> {"superadmin"},
         authMiddleware |-> <<"requireAuth">>,
         customHandlers |-> {"create", "update"},
         extraRoutes |-> {}]]

PanelNames == {"articles", "site_settings", "users"}

\* the chain in front of a panel route: the panel's authMiddleware and then the
\* adapter's handler or the custom handler; requireSuperadmin and the
\* controller method for the reset routes
adminChain(panel, route) ==
    IF route \in AdminPanels[panel].extraRoutes
    THEN <<"requireSuperadmin", "controller">>
    ELSE AdminPanels[panel].authMiddleware
         \o (IF route \in AdminPanels[panel].customHandlers
             THEN <<"customHandler">> ELSE <<"adapter">>)

\* the caller is unauthenticated (Undefined) or carries a role
AdminRequests ==
    {[caller |-> c, panel |-> p, route |-> r] :
        c \in {Undefined} \cup {Some(role) : role \in UserRoles},
        p \in PanelNames,
        r \in AdminRouteKinds \cup ResetRouteKinds}

NoAdminRequest == [caller |-> Undefined, panel |-> "articles", route |-> "list"]

AdminIdle ==
    /\ adminRequest = NoAdminRequest
    /\ adminPc = 0
    /\ adminOutcome = "idle"

----------------------------------------------------------------------------
(* BaseRouteFactory.createCrudRoutes on arbitrary configurations *)

MaxCustom == 2

CustomInputs ==
    {Undefined} \cup
    {Some([i \in 1..n |-> "custom"]) : n \in 0..MaxCustom}

MiddlewareInputs ==
    {Undefined} \cup
    {Some([auth |-> a, role |-> r, custom |-> c]) :
        a \in BOOLEAN,
        r \in {Undefined, Some(<<"admin">>)},
        c \in CustomInputs}

\* CrudRouteConfig: schemas?, publicRoutes?, disabledRoutes?, middleware?
CrudRouteConfigs ==
    [basePath : {<<"x">>},
     schemas : {{}, {"create"}, {"create", "update"}},
     publicRoutes : {Undefined} \cup {Some(s) : s \in SUBSET ReadKinds},
     disabledRoutes : {Undefined, Some({"getAll"}), Some({"create", "update", "delete"})},
     middleware : MiddlewareInputs]

NoCrudConfig ==
    [basePath |-> <<>>, schemas |-> {}, publicRoutes |-> Undefined,
     disabledRoutes |-> Undefined, middleware |-> Undefined]

FactoryIdle == crudConfig = NoCrudConfig

----------------------------------------------------------------------------
(* ArticleController.create and ArticleService.create *)

MaxArticleRequests == 3
Slots == {1, 2}

Digits == {"0", "1", "2", "3", "4", "5", "6", "7", "8", "9"}

\* \w, \s and the characters the slug keeps
IsWordChar(c) == IsLower(c) \/ IsUpper(c) \/ c \in Digits \/ c = "_"
IsSpace(c) == c = " "

RECURSIVE trimStart(_)
trimStart(s) == IF s # <<>> /\ IsSpace(s[1]) THEN trimStart(Tail(s)) ELSE s

RECURSIVE trimEnd(_)
trimEnd(s) ==
    IF s # <<>> /\ IsSpace(s[Len(s)]) THEN trimEnd(SubSeq(s, 1, Len(s) - 1)) ELSE s

trim(s) == trimEnd(trimStart(s))

\* .replace(/[^\w\s-]/g, "")
stripOthers(s) ==
    LET kept(c) == IsWordChar(c) \/ IsSpace(c) \/ c = "-" IN SelectSeq(s, kept)

RECURSIVE squeeze(_, _, _)
\* every maximal run of characters satisfying `in` becomes one `by`
squeeze(s, in, by) ==
    IF s = <<>> THEN <<>>
    ELSE IF s[1] \in in
         THEN IF Len(s) >= 2 /\ s[2] \in in
              THEN squeeze(Tail(s), in, by)
              ELSE <<by>> \o squeeze(Tail(s), in, by)
         ELSE <<s[1]>> \o squeeze(Tail(s), in, by)

\* title.toLowerCase().trim().replace(/[^\w\s-]/g, "")
\*      .replace(/\s+/g, "-").replace(/-+/g, "-")
generateSlug(title) ==
    squeeze(squeeze(stripOthers(trim(toLowerCase(title))), {" "}, "-"), {"-"}, "-")

TitleInputs == {<<"A", " ", "b">>, <<"a", "!", "-", "-", "b", " ">>}
SlugInputs == {<<>>, <<"c">>}
CallerInputs == {Undefined, Some([id |-> 7]), Some([id |-> 8])}
BodyAuthorId == 9

\* validatedData: title, and possibly slug and a stray authorId
BodyInputs ==
    {[title |-> t] : t \in TitleInputs}
    \cup {[title |-> t, slug |-> g] : t \in TitleInputs, g \in SlugInputs}
    \cup {[title |-> t, authorId |-> BodyAuthorId, isPublished |-> TRUE] :
             t \in TitleInputs}

ArticleRequests ==
    {[user |-> u, validatedData |-> b, data |-> NoData] :
        u \in CallerInputs, b \in BodyInputs}

NoArticleRequest ==
    [user |-> Undefined, validatedData |-> NoData, data |-> NoData]

\* the rows of the articles table holding the slug
rowsWithSlug(tbl, slug) == {tbl[j] : j \in {i \in DOMAIN tbl : tbl[i].slug = slug}}

ArticleIdle ==
    /\ articles = NoRows
    /\ articleNextId = 1
    /\ artRequest = [p \in Slots |-> NoArticleRequest]
    /\ artPc = [p \in Slots |-> "idle"]
    /\ artResult = [p \in Slots |-> Undefined]
    /\ artOutcome = [p \in Slots |-> "idle"]
    /\ artServed = 0

----------------------------------------------------------------------------
(* UserService: passwords *)

MaxUserCalls == 4

PasswordInputs == {<<>>, <<"p">>, <<"q">>}

\* hashPassword never returns its argument: a hash carries a marker no
\* supplied password begins with
hashPassword(password) == <<"$">> \o password

UserCreateInputs == {[email |-> "e", password |-> pw] : pw \in PasswordInputs}

\* Partial<CreateUserDTO>
UserUpdateInputs ==
    {[email |-> "f"]} \cup {[password |-> pw] : pw \in PasswordInputs}

\* UserService.beforeCreate
userBeforeCreate(data) == Spread(data, [password |-> hashPassword(data.password)])

\* UserService.beforeUpdate: if (data.password) hash it; "" is falsy
userBeforeUpdate(data) ==
    IF "password" \in DOMAIN data /\ data.password # <<>>
    THEN Spread(data, [password |-> hashPassword(data.password)])
    ELSE data

UserIdle ==
    /\ users = NoRows
    /\ supplied = NoRows
    /\ userCalls = 0

RestIdle == AdminIdle /\ FactoryIdle /\ ArticleIdle /\ UserIdle

----------------------------------------------------------------------------
(* The generator run: buildContext, render, write loop, route registration *)

Init ==
    /\ options \in CLIOptions
    /\ pc = "start"
    /\ context = Undefined
    /\ files = NoFiles
    /\ idx = 1
    /\ written = <<>>
    /\ routes = NoRoutes
    /\ mounted = <<>>
    /\ request = NoRequest
    /\ authPc = 0
    /\ consulted = {}
    /\ outcome = "idle"
    /\ ServiceIdle
    /\ RestIdle

\* const context = buildContext(options)
BuildContext ==
    /\ pc = "start"
    /\ context' = Some(buildContext(options))
    /\ pc' = "render"
    /\ UNCHANGED <<options, files, idx, written, routes, mounted>>

\* const files = { model: templates.model(context), ... }
RenderFiles ==
    /\ pc = "render"
    /\ files' = renderFiles(options, Get(context))
    /\ pc' = "write"
    /\ UNCHANGED <<options, context, idx, written, routes, mounted>>

\* one iteration of: for (const [name, content] of Object.entries(files))
\*                     if (content) writeFile(getFilePath(name, context), content)
WriteFile ==
    /\ pc = "write"
    /\ idx <= Len(FileOrder)
    /\ written' = IF IsDefined(files[FileOrder[idx]])
                  THEN Append(written, FileOrder[idx]) ELSE written
    /\ idx' = idx + 1
    /\ pc' = IF idx = Len(FileOrder) THEN "register" ELSE "write"
    /\ UNCHANGED <<options, context, files, routes, mounted>>

\* post-generation step 1: main.ts mounts the generated route modules
RegisterRoutes ==
    /\ pc = "register"
    /\ routes' = createCrudRoutes(Get(files.route))
    /\ mounted' = <<"route">> \o (IF options.withAdmin THEN <<"adminRoute">> ELSE <<>>)
    /\ pc' = "done"
    /\ UNCHANGED <<options, context, files, idx, written>>

Next ==
    \/ BuildContext /\ UNCHANGED notScaffoldVars
    \/ RenderFiles /\ UNCHANGED notScaffoldVars
    \/ WriteFile /\ UNCHANGED notScaffoldVars
    \/ RegisterRoutes /\ UNCHANGED notScaffoldVars

Spec == Init /\ [][Next]_vars

----------------------------------------------------------------------------
(* BaseController.checkAuth, one step per check *)

\* mutant: the bypass is evaluated after the other checks
CheckOrder_BypassLast == <<"role", "ownership", "custom", "bypass">>

\* the order in which checkAuth evaluates its checks
CheckOrder == <<"bypass", "role", "ownership", "custom">>

CurrentCheck == IF authPc \in DOMAIN CheckOrder THEN CheckOrder[authPc] ELSE "none"

Advance ==
    /\ authPc' = authPc + 1
    /\ outcome' = outcome

Deny ==
    /\ outcome' = "denied"
    /\ authPc' = authPc

\* superadmin skips all checks
SuperadminBypass ==
    /\ outcome = "pending"
    /\ CurrentCheck = "bypass"
    /\ IF request.role = "superadmin"
       THEN outcome' = "allowed" /\ authPc' = authPc
       ELSE Advance
    /\ UNCHANGED <<request, consulted>>

\* role check (if authConfig.<op>.roles specified)
RoleCheck ==
    /\ outcome = "pending"
    /\ CurrentCheck = "role"
    /\ IF request.rule.roles # {}
       THEN /\ consulted' = consulted \cup {"role"}
            /\ IF request.role \in request.rule.roles THEN Advance ELSE Deny
       ELSE Advance /\ consulted' = consulted
    /\ UNCHANGED request

\* ownership check (if authConfig.<op>.ownershipCheck specified)
OwnershipCheck ==
    /\ outcome = "pending"
    /\ CurrentCheck = "ownership"
    /\ IF request.rule.ownershipCheck
       THEN /\ consulted' = consulted \cup {"ownership"}
            /\ IF request.isOwner THEN Advance ELSE Deny
       ELSE Advance /\ consulted' = consulted
    /\ UNCHANGED request

\* custom check (if authConfig.<op>.customCheck specified)
CustomCheck ==
    /\ outcome = "pending"
    /\ CurrentCheck = "custom"
    /\ IF request.rule.customCheck
       THEN /\ consulted' = consulted \cup {"custom"}
            /\ IF request.customPasses THEN Advance ELSE Deny
       ELSE Advance /\ consulted' = consulted
    /\ UNCHANGED request

\* every check passed: the controller goes on to service.<op>()
Authorized ==
    /\ outcome = "pending"
    /\ authPc > Len(CheckOrder)
    /\ outcome' = "allowed"
    /\ UNCHANGED <<request, authPc, consulted>>

IdleOptions ==
    [entityName |-> <<"C", "i", "t", "y">>,
     withAdmin |-> FALSE, withTests |-> FALSE, skipMigration |-> FALSE,
     publicRoutes |-> Undefined, disabledRoutes |-> Undefined,
     auth |-> Undefined, ownershipField |-> Undefined,
     roles |-> Undefined, hooks |-> Undefined]

AuthInit ==
    /\ options = IdleOptions
    /\ pc = "idle"
    /\ context = Undefined
    /\ files = NoFiles
    /\ idx = 1
    /\ written = <<>>
    /\ routes = NoRoutes
    /\ mounted = <<>>
    /\ request \in Requests
    /\ authPc = 1
    /\ consulted = {}
    /\ outcome = "pending"
    /\ ServiceIdle
    /\ RestIdle

AuthNext ==
    \/ SuperadminBypass /\ UNCHANGED notAuthVars
    \/ RoleCheck /\ UNCHANGED notAuthVars
    \/ OwnershipCheck /\ UNCHANGED notAuthVars
    \/ CustomCheck /\ UNCHANGED notAuthVars
    \/ Authorized /\ UNCHANGED notAuthVars

AuthSpec == AuthInit /\ [][AuthNext]_vars

----------------------------------------------------------------------------
(* BaseService: one action per method call and per awaited step *)

CanCall == svcPc \in {"idle", "returned"} /\ calls < MaxCalls

BeginCall(op, id, data, first) ==
    /\ CanCall
    /\ call' = [op |-> op, id |-> id, data |-> data]
    /\ calls' = calls + 1
    /\ svcPc' = first
    /\ processedData' = data
    /\ dbResult' = {}
    /\ hookTrace' = <<>>
    /\ ret' = Undefined
    /\ snapshot' = table
    /\ heapBefore' = heap
    /\ UNCHANGED <<overrides, table, nextId, live, heap>>

\* service.create(data) is called
CallCreate == \E data \in CreateInputs : BeginCall("create", 0, data, "beforeCreate")

\* service.update(id, data) is called
CallUpdate ==
    \E id \in IdInputs, data \in UpdateInputs : BeginCall("update", id, data, "beforeUpdate")

\* service.delete(id) is called
CallDelete == \E id \in IdInputs : BeginCall("delete", id, NoData, "beforeDelete")

\* getAll(): db.select().from(table)
GetAll ==
    /\ CanCall
    /\ call' = [op |-> "getAll", id |-> 0, data |-> NoData]
    /\ calls' = calls + 1
    /\ ret' = [i \in 1..Len(heap) |-> table[heap[i]]]
    /\ svcPc' = "returned"
    /\ processedData' = NoData
    /\ dbResult' = {table[j] : j \in DOMAIN table}
    /\ hookTrace' = <<"db">>
    /\ snapshot' = table
    /\ heapBefore' = heap
    /\ UNCHANGED <<overrides, table, nextId, live, heap>>

\* getById(id): select ... where id = id limit 1; null when no row
GetById ==
    \E id \in IdInputs :
        /\ CanCall
        /\ call' = [op |-> "getById", id |-> id, data |-> NoData]
        /\ calls' = calls + 1
        /\ dbResult' = {table[j] : j \in (DOMAIN table) \cap {id}}
        /\ ret' = IF dbResult' = {} THEN Undefined ELSE Some(Get(dbResult'))
        /\ svcPc' = "returned"
        /\ processedData' = NoData
        /\ hookTrace' = <<"db">>
        /\ snapshot' = table
        /\ heapBefore' = heap
        /\ UNCHANGED <<overrides, table, nextId, live, heap>>

\* processedData = this.beforeCreate ? await this.beforeCreate(data) : data
BeforeCreateHook ==
    /\ svcPc = "beforeCreate"
    /\ IF beforeHookOf(call.op) \in overrides
       THEN /\ processedData' = beforeCreate(call.data)
            /\ hookTrace' = Append(hookTrace, beforeHookOf(call.op))
       ELSE UNCHANGED <<processedData, hookTrace>>
    /\ svcPc' = "insert"
    /\ UNCHANGED <<overrides, table, nextId, calls, call, dbResult, ret, snapshot, live,
                   heap, heapBefore>>

\* [newRecord] = await db.insert(table).values(processedData).returning()
Insert ==
    /\ svcPc = "insert"
    /\ LET row == insertedRow(nextId, processedData, calls) IN
       /\ table' = [j \in (DOMAIN table) \cup {nextId} |->
                       IF j = nextId THEN row ELSE table[j]]
       /\ dbResult' = {row}
    /\ heap' = Append(heap, nextId)
    /\ nextId' = nextId + 1
    /\ hookTrace' = Append(hookTrace, "db")
    /\ svcPc' = "afterCreate"
    /\ UNCHANGED <<overrides, calls, call, processedData, ret, snapshot, live, heapBefore>>

\* return this.afterCreate ? await this.afterCreate(result) : result
AfterCreateHook ==
    /\ svcPc = "afterCreate"
    /\ hookTrace' = IF afterHookOf(call.op) \in overrides
                    THEN Append(hookTrace, afterHookOf(call.op)) ELSE hookTrace
    /\ ret' = Some(Get(dbResult))
    /\ live' = [j \in (DOMAIN live) \cup {Get(dbResult).id} |->
                   IF j = Get(dbResult).id THEN Get(dbResult) ELSE live[j]]
    /\ svcPc' = "returned"
    /\ UNCHANGED <<overrides, table, nextId, calls, call, processedData, dbResult, snapshot,
                   heap, heapBefore>>

\* processedData = this.beforeUpdate ? await this.beforeUpdate(id, data) : data
BeforeUpdateHook ==
    /\ svcPc = "beforeUpdate"
    /\ IF beforeHookOf(call.op) \in overrides
       THEN /\ processedData' = beforeUpdate(call.id, call.data)
            /\ hookTrace' = Append(hookTrace, beforeHookOf(call.op))
       ELSE UNCHANGED <<processedData, hookTrace>>
    /\ svcPc' = "set"
    /\ UNCHANGED <<overrides, table, nextId, calls, call, dbResult, ret, snapshot, live,
                   heap, heapBefore>>

\* updated = await db.update(table).set({...}).where(eq(table.id, id)).returning()
UpdateSet ==
    /\ svcPc = "set"
    /\ table' = dbUpdate(table, call.id, setClause(processedData, calls))
    /\ dbResult' = {table'[j] : j \in (DOMAIN table) \cap {call.id}}
    /\ \E moved \in BOOLEAN :
          heap' = IF moved /\ call.id \in Range(heap)
                  THEN Append(heapWithout(heap, {call.id}), call.id) ELSE heap
    /\ hookTrace' = Append(hookTrace, "db")
    /\ svcPc' = "afterUpdate"
    /\ UNCHANGED <<overrides, nextId, calls, call, processedData, ret, snapshot, live,
                   heapBefore>>

\* if (updated.length === 0) return null;
\* return this.afterUpdate ? await this.afterUpdate(result) : result
AfterUpdateHook ==
    /\ svcPc = "afterUpdate"
    /\ IF dbResult = {}
       THEN /\ ret' = Undefined
            /\ UNCHANGED <<hookTrace, live>>
       ELSE /\ hookTrace' = IF afterHookOf(call.op) \in overrides
                            THEN Append(hookTrace, afterHookOf(call.op)) ELSE hookTrace
            /\ ret' = Some(Get(dbResult))
            /\ live' = [j \in (DOMAIN live) \cup {Get(dbResult).id} |->
                           IF j = Get(dbResult).id THEN Get(dbResult) ELSE live[j]]
    /\ svcPc' = "returned"
    /\ UNCHANGED <<overrides, table, nextId, calls, call, processedData, dbResult, snapshot,
                   heap, heapBefore>>

\* if (this.beforeDelete) await this.beforeDelete(id)
BeforeDeleteHook ==
    /\ svcPc = "beforeDelete"
    /\ hookTrace' = IF beforeHookOf(call.op) \in overrides
                    THEN Append(hookTrace, beforeHookOf(call.op)) ELSE hookTrace
    /\ svcPc' = "remove"
    /\ UNCHANGED <<overrides, table, nextId, calls, call, processedData,
                   dbResult, ret, snapshot, live, heap, heapBefore>>

\* deleted = await db.delete(table).where(eq(table.id, id)).returning()
DeleteRow ==
    /\ svcPc = "remove"
    /\ table' = dbDelete(table, call.id)
    /\ dbResult' = {table[j] : j \in (DOMAIN table) \cap {call.id}}
    /\ heap' = heapWithout(heap, Range(heap) \ DOMAIN table')
    /\ hookTrace' = Append(hookTrace, "db")
    /\ svcPc' = "afterDelete"
    /\ UNCHANGED <<overrides, nextId, calls, call, processedData, ret, snapshot, live,
                   heapBefore>>

\* if (this.afterDelete && success) await this.afterDelete(id); return success
AfterDeleteHook ==
    /\ svcPc = "afterDelete"
    /\ hookTrace' = IF afterHookOf(call.op) \in overrides /\ success(dbResult)
                    THEN Append(hookTrace, afterHookOf(call.op)) ELSE hookTrace
    /\ ret' = success(dbResult)
    /\ live' = IF ret' THEN [j \in (DOMAIN live) \ {call.id} |-> live[j]] ELSE live
    /\ svcPc' = "returned"
    /\ UNCHANGED <<overrides, table, nextId, calls, call, processedData, dbResult, snapshot,
                   heap, heapBefore>>

ServiceInit ==
    /\ options = IdleOptions
    /\ pc = "idle"
    /\ context = Undefined
    /\ files = NoFiles
    /\ idx = 1
    /\ written = <<>>
    /\ routes = NoRoutes
    /\ mounted = <<>>
    /\ request = NoRequest
    /\ authPc = 0
    /\ consulted = {}
    /\ outcome = "idle"
    /\ overrides \in OverrideInputs
    /\ table = NoRows
    /\ nextId = 1
    /\ calls = 0
    /\ svcPc = "idle"
    /\ call = NoCall
    /\ processedData = NoData
    /\ dbResult = {}
    /\ hookTrace = <<>>
    /\ ret = Undefined
    /\ snapshot = NoRows
    /\ live = NoRows
    /\ heap = <<>>
    /\ heapBefore = <<>>
    /\ RestIdle

ServiceNext ==
    \/ CallCreate /\ UNCHANGED notSvcVars
    \/ CallUpdate /\ UNCHANGED notSvcVars
    \/ CallDelete /\ UNCHANGED notSvcVars
    \/ GetAll /\ UNCHANGED notSvcVars
    \/ GetById /\ UNCHANGED notSvcVars
    \/ BeforeCreateHook /\ UNCHANGED notSvcVars
    \/ Insert /\ UNCHANGED notSvcVars
    \/ AfterCreateHook /\ UNCHANGED notSvcVars
    \/ BeforeUpdateHook /\ UNCHANGED notSvcVars
    \/ UpdateSet /\ UNCHANGED notSvcVars
    \/ AfterUpdateHook /\ UNCHANGED notSvcVars
    \/ BeforeDeleteHook /\ UNCHANGED notSvcVars
    \/ DeleteRow /\ UNCHANGED notSvcVars
    \/ AfterDeleteHook /\ UNCHANGED notSvcVars

ServiceSpec == ServiceInit /\ [][ServiceNext]_vars

----------------------------------------------------------------------------
(* A request to an admin panel, one action per link of its chain *)

AdminCurrent ==
    LET chain == adminChain(adminRequest.panel, adminRequest.route) IN
    IF adminPc \in DOMAIN chain THEN chain[adminPc] ELSE "none"

AdminReject(status) ==
    /\ adminOutcome' = status
    /\ UNCHANGED <<adminRequest, adminPc>>

\* requireAuth: no authenticated user, no access
AdminRequireAuth ==
    /\ adminOutcome = "pending"
    /\ AdminCurrent = "requireAuth"
    /\ IF adminRequest.caller = Undefined
       THEN AdminReject("401")
       ELSE adminPc' = adminPc + 1 /\ UNCHANGED <<adminRequest, adminOutcome>>

\* requireSuperadmin in front of the reset routes
AdminRequireSuperadmin ==
    /\ adminOutcome = "pending"
    /\ AdminCurrent = "requireSuperadmin"
    /\ IF adminRequest.caller = Undefined THEN AdminReject("401")
       ELSE IF adminRequest.caller # Some("superadmin") THEN AdminReject("403")
       ELSE adminPc' = adminPc + 1 /\ UNCHANGED <<adminRequest, adminOutcome>>

\* the adapter's own handler: the caller's role must be one of allowedRoles
AdminAdapterHandler ==
    /\ adminOutcome = "pending"
    /\ AdminCurrent = "adapter"
    /\ IF Get(adminRequest.caller) \in AdminPanels[adminRequest.panel].allowedRoles
       THEN adminOutcome' = "handled" /\ UNCHANGED <<adminRequest, adminPc>>
       ELSE AdminReject("403")

\* a customHandlers entry or a controller method: it checks no role itself
\* (UserAdminController.create / update); whether the factory puts the adapter's
\* role check in front of it is not in the sources, so both are possible
AdminCustomHandler ==
    /\ adminOutcome = "pending"
    /\ AdminCurrent \in {"customHandler", "controller"}
    /\ \E roleChecked \in BOOLEAN :
          IF /\ roleChecked
             /\ Get(adminRequest.caller) \notin AdminPanels[adminRequest.panel].allowedRoles
          THEN AdminReject("403")
          ELSE adminOutcome' = "handled" /\ UNCHANGED <<adminRequest, adminPc>>

ScaffoldIdle ==
    /\ options = IdleOptions
    /\ pc = "idle"
    /\ context = Undefined
    /\ files = NoFiles
    /\ idx = 1
    /\ written = <<>>
    /\ routes = NoRoutes
    /\ mounted = <<>>

AuthIdle ==
    /\ request = NoRequest
    /\ authPc = 0
    /\ consulted = {}
    /\ outcome = "idle"

AdminInit ==
    /\ ScaffoldIdle /\ AuthIdle /\ ServiceIdle
    /\ FactoryIdle /\ ArticleIdle /\ UserIdle
    /\ adminRequest \in
          {r \in AdminRequests :
              r.route \in AdminRouteKinds \cup AdminPanels[r.panel].extraRoutes}
    /\ adminPc = 1
    /\ adminOutcome = "pending"

AdminNext ==
    \/ AdminRequireAuth /\ UNCHANGED <<scaffoldVars, authVars, svcVars, factoryVars, articleVars, userVars>>
    \/ AdminRequireSuperadmin /\ UNCHANGED <<scaffoldVars, authVars, svcVars, factoryVars, articleVars, userVars>>
    \/ AdminAdapterHandler /\ UNCHANGED <<scaffoldVars, authVars, svcVars, factoryVars, articleVars, userVars>>
    \/ AdminCustomHandler /\ UNCHANGED <<scaffoldVars, authVars, svcVars, factoryVars, articleVars, userVars>>

AdminSpec == AdminInit /\ [][AdminNext]_vars

----------------------------------------------------------------------------
(* BaseRouteFactory.createCrudRoutes applied to a configuration *)

CreateCrudRoutes ==
    /\ pc = "factory"
    /\ routes' = createCrudRoutes(crudConfig)
    /\ pc' = "registered"
    /\ UNCHANGED <<options, context, files, idx, written, mounted>>

FactoryInit ==
    /\ options = IdleOptions
    /\ pc = "factory"
    /\ context = Undefined
    /\ files = NoFiles
    /\ idx = 1
    /\ written = <<>>
    /\ routes = NoRoutes
    /\ mounted = <<>>
    /\ AuthIdle /\ ServiceIdle
    /\ AdminIdle /\ ArticleIdle /\ UserIdle
    /\ crudConfig \in CrudRouteConfigs

FactoryNext ==
    CreateCrudRoutes /\ UNCHANGED <<authVars, svcVars, adminVars, factoryVars, articleVars, userVars>>

FactorySpec == FactoryInit /\ [][FactoryNext]_vars

----------------------------------------------------------------------------
(* The generator run on entity names of every shape *)

NameInputs ==
    {<<>>, <<"C", "i", "t", "y">>, <<"b", "o", "x">>,
     <<"i", "n", "t", "e", "r", "n", "a", "l", "-", "l", "o", "g">>,
     <<"a", "_", "b">>, <<"t", "a", "g", "2">>}

NameInit ==
    /\ options \in
          {[IdleOptions EXCEPT !.entityName = n, !.withAdmin = a,
                               !.withTests = t, !.skipMigration = m] :
              n \in NameInputs, a \in BOOLEAN, t \in BOOLEAN, m \in BOOLEAN}
    /\ pc = "start"
    /\ context = Undefined
    /\ files = NoFiles
    /\ idx = 1
    /\ written = <<>>
    /\ routes = NoRoutes
    /\ mounted = <<>>
    /\ AuthIdle /\ ServiceIdle /\ RestIdle

NameSpec == NameInit /\ [][Next]_vars

----------------------------------------------------------------------------
(* ArticleController.create -> ArticleService.createArticle -> create *)

\* { ...validatedData, isPublished: validatedData.isPublished ?? false }
articleData(validatedData) ==
    Spread(validatedData,
           [isPublished |->
               IF "isPublished" \in DOMAIN validatedData
               THEN validatedData.isPublished ELSE FALSE])

\* mutant: the body's authorId survives
createArticleData_BodyWins(data, authorId) ==
    Spread([authorId |-> authorId], data)

\* this.create({ ...data, authorId })
createArticleData(data, authorId) == Spread(data, [authorId |-> authorId])

\* data.slug || this.generateSlug(data.title)
slugOf(data) ==
    IF "slug" \in DOMAIN data /\ data.slug # <<>>
    THEN data.slug ELSE generateSlug(data.title)

\* a request reaches the controller in a free slot
ArticleRequest(p, r) ==
    /\ artServed < MaxArticleRequests
    /\ artPc[p] \in {"idle", "done"}
    /\ artRequest' = [artRequest EXCEPT ![p] = r]
    /\ artPc' = [artPc EXCEPT ![p] = "create"]
    /\ artOutcome' = [artOutcome EXCEPT ![p] = "pending"]
    /\ artResult' = [artResult EXCEPT ![p] = Undefined]
    /\ artServed' = artServed + 1
    /\ UNCHANGED <<articles, articleNextId>>

\* if (!user) throw new BadRequestError("User not authenticated")
ArticleControllerReject(p) ==
    /\ artPc[p] = "create"
    /\ ~IsDefined(artRequest[p].user)
    /\ artOutcome' = [artOutcome EXCEPT ![p] = "BadRequestError"]
    /\ artPc' = [artPc EXCEPT ![p] = "done"]
    /\ UNCHANGED <<articles, articleNextId, artRequest, artResult, artServed>>

\* articleService.createArticle(articleData, user.id), up to the hook
ArticleControllerCreate(p) ==
    /\ artPc[p] = "create"
    /\ IsDefined(artRequest[p].user)
    /\ artRequest' =
          [artRequest EXCEPT ![p].data =
              createArticleData(articleData(artRequest[p].validatedData),
                                Get(artRequest[p].user).id)]
    /\ artPc' = [artPc EXCEPT ![p] = "beforeCreate"]
    /\ UNCHANGED <<articles, articleNextId, artResult, artOutcome, artServed>>

\* beforeCreate: the slug is already stored
ArticleSlugExists(p) ==
    /\ artPc[p] = "beforeCreate"
    /\ rowsWithSlug(articles, slugOf(artRequest[p].data)) # {}
    /\ artOutcome' = [artOutcome EXCEPT ![p] = "BadRequestError"]
    /\ artPc' = [artPc EXCEPT ![p] = "done"]
    /\ UNCHANGED <<articles, articleNextId, artRequest, artResult, artServed>>

\* beforeCreate: return { ...data, slug, isPublished: data.isPublished ?? false }
ArticleBeforeCreate(p) ==
    /\ artPc[p] = "beforeCreate"
    /\ rowsWithSlug(articles, slugOf(artRequest[p].data)) = {}
    /\ artRequest' =
          [artRequest EXCEPT ![p].data =
              Spread(articleData(artRequest[p].data),
                     [slug |-> slugOf(artRequest[p].data)])]
    /\ artPc' = [artPc EXCEPT ![p] = "insert"]
    /\ UNCHANGED <<articles, articleNextId, artResult, artOutcome, artServed>>

\* db.insert(...).values(processedData): slug is declared unique
ArticleInsertRefused(p) ==
    /\ artPc[p] = "insert"
    /\ rowsWithSlug(articles, artRequest[p].data.slug) # {}
    /\ artOutcome' = [artOutcome EXCEPT ![p] = "DatabaseError"]
    /\ artPc' = [artPc EXCEPT ![p] = "done"]
    /\ UNCHANGED <<articles, articleNextId, artRequest, artResult, artServed>>

\* db.insert(...).values(processedData).returning()
ArticleInsert(p) ==
    /\ artPc[p] = "insert"
    /\ rowsWithSlug(articles, artRequest[p].data.slug) = {}
    /\ LET row == Spread(artRequest[p].data, [id |-> articleNextId]) IN
          /\ articles' =
                [j \in (DOMAIN articles) \cup {articleNextId} |->
                    IF j = articleNextId THEN row ELSE articles[j]]
          /\ artResult' = [artResult EXCEPT ![p] = Some(row)]
    /\ articleNextId' = articleNextId + 1
    /\ artPc' = [artPc EXCEPT ![p] = "afterCreate"]
    /\ UNCHANGED <<artRequest, artOutcome, artServed>>

\* afterCreate (not overridden), createArticle's return and the 201 response
ArticleAfterCreate(p) ==
    /\ artPc[p] = "afterCreate"
    /\ artOutcome' = [artOutcome EXCEPT ![p] = "created"]
    /\ artPc' = [artPc EXCEPT ![p] = "done"]
    /\ UNCHANGED <<articles, articleNextId, artRequest, artResult, artServed>>

ArticleInit ==
    /\ ScaffoldIdle /\ AuthIdle /\ ServiceIdle
    /\ AdminIdle /\ FactoryIdle /\ ArticleIdle /\ UserIdle

ArticleNext ==
    /\ \E p \in Slots :
          \/ \E r \in ArticleRequests : ArticleRequest(p, r)
          \/ ArticleControllerReject(p)
          \/ ArticleControllerCreate(p)
          \/ ArticleSlugExists(p)
          \/ ArticleBeforeCreate(p)
          \/ ArticleInsertRefused(p)
          \/ ArticleInsert(p)
          \/ ArticleAfterCreate(p)
    /\ UNCHANGED <<scaffoldVars, authVars, svcVars, adminVars, factoryVars,
                   userVars>>

ArticleSpec == ArticleInit /\ [][ArticleNext]_vars

----------------------------------------------------------------------------
(* UserService.create and UserService.update *)

\* the users table keeps email and password of each row
userRow(id, values) == [email |-> values.email, password |-> values.password, id |-> id]

\* .set({ ...processedData, updatedAt }) on the row with the id
userUpdatedRow(row, set) ==
    [c \in DOMAIN row |-> IF c \in DOMAIN set THEN set[c] ELSE row[c]]

\* userService.create(data)
UserCreate(data) ==
    /\ userCalls < MaxUserCalls
    /\ LET id == Cardinality(DOMAIN users) + 1
           processed == userBeforeCreate(data)
       IN /\ users' =
                [j \in (DOMAIN users) \cup {id} |->
                    IF j = id THEN userRow(id, processed) ELSE users[j]]
          /\ supplied' =
                [j \in (DOMAIN supplied) \cup {id} |->
                    IF j = id THEN data.password ELSE supplied[j]]
    /\ userCalls' = userCalls + 1

\* userService.update(id, data)
UserUpdate(id, data) ==
    /\ userCalls < MaxUserCalls
    /\ LET processed == userBeforeUpdate(data) IN
          users' =
             IF id \in DOMAIN users
             THEN [users EXCEPT ![id] = userUpdatedRow(users[id], processed)]
             ELSE users
    /\ supplied' =
          IF id \in DOMAIN users /\ "password" \in DOMAIN data
          THEN [supplied EXCEPT ![id] = data.password]
          ELSE supplied
    /\ userCalls' = userCalls + 1

UserInit ==
    /\ ScaffoldIdle /\ AuthIdle /\ ServiceIdle
    /\ AdminIdle /\ FactoryIdle /\ ArticleIdle /\ UserIdle

UserNext ==
    /\ \/ \E data \in UserCreateInputs : UserCreate(data)
       \/ \E id \in 1..MaxUserCalls, data \in UserUpdateInputs :
             UserUpdate(id, data)
    /\ UNCHANGED <<scaffoldVars, authVars, svcVars, adminVars, factoryVars,
                   articleVars>>

UserSpec == UserInit /\ [][UserNext]_vars

----------------------------------------------------------------------------
(* The plan as the generated artifacts state it *)

PublicRoutesGiven == OrElse(options.publicRoutes, {})
DisabledRoutesGiven == OrElse(options.disabledRoutes, {})

\* RouteDecision[k].emitted: the generated route module registers route k
RouteEmitted(k) == k \in DOMAIN routes

\* RouteDecision[k].public: a read route is public when the factory takes its
\* public branch; a mutating route has no public branch and is reachable
\* unauthenticated exactly when its chain holds no authentication middleware
RoutePublic(k) ==
    IF k \in ReadKinds
    THEN k \in OrElse(Get(files.route).publicRoutes, {})
    ELSE "requireAuth" \notin Range(routes[k].chain)

\* AuthRule[k]: what the generated controller declares for operation k
AuthRule(k) ==
    LET authConfig == Get(files.controller).authConfig
        declared == IsDefined(authConfig) /\ k \in DOMAIN Get(authConfig)
    IN  [roles |-> IF declared THEN Get(authConfig)[k].roles ELSE <<>>,
         ownershipCheck |-> declared /\ Get(authConfig)[k].ownershipCheck,
         customCheck |-> FALSE,
         superadminBypass |-> declared]

CoreFiles == {"model", "dto", "service", "controller", "route"}

\* role auth with a missing or empty --roles value
RoleAuthWithoutRoles == authTypeOf(options) = "role" /\ ~TruthyString(options.roles)

\* the factory's public branch: publicRoutes.includes(k), k one of getAll / getById
RouteDeclaredPublic(k) ==
    k \in ReadKinds /\ k \in OrElse(Get(files.route).publicRoutes, {})

\* the chain of route k holds the authentication middleware
RouteAuthenticated(k) == "requireAuth" \in Range(routes[k].chain)

\* the rules of the specification that the given options violate
ViolatedRules ==
    (IF RoleAuthWithoutRoles THEN {"roleWithoutRoles"} ELSE {})
    \cup (IF PublicRoutesGiven \cap DisabledRoutesGiven # {}
          THEN {"publicAndDisabled"} ELSE {})

\* the errors a run has reported: buildContext, the render step and the write
\* loop have no failure result, a run only ever moves on
ReportedErrors == IF pc = "failed" THEN ViolatedRules ELSE {}

\* the generated files each generated file imports; the test requests the
\* routes of the route file through the application
dependsOn(name) ==
    CASE name = "model" -> {}
      [] name = "dto" -> {}
      [] name = "service" -> {"model", "dto"}
      [] name = "controller" -> {"service"}
      [] name = "route" -> {"controller", "dto"}
      [] name = "adminRoute" -> {"model"}
      [] name = "test" -> {"model", "route"}
      [] name = "migration" -> {}

\* the artifacts a run is to produce, in order
ExpectedPlan ==
    <<"model", "dto", "service", "controller", "route">>
    \o (IF options.withAdmin THEN <<"adminRoute">> ELSE <<>>)
    \o (IF options.withTests THEN <<"test">> ELSE <<>>)
    \o (IF ~options.skipMigration THEN <<"migration">> ELSE <<>>)

----------------------------------------------------------------------------
(* Claims *)

\* C1: once the generated routes are registered, a route kind is emitted exactly
\* when it is not listed in disabledRoutes, whatever publicRoutes and auth are.
C1_EmittedIffNotDisabled ==
    pc = "done" =>
        \A k \in RouteKinds : RouteEmitted(k) <=> k \notin DisabledRoutesGiven

C1_Witness ==
    /\ pc = "done"
    /\ options.disabledRoutes = Some({"create", "delete"})
    /\ options.publicRoutes = Some({"create"})
    /\ options.auth = Some("role")
    /\ DOMAIN routes = {"getAll", "getById", "update"}

C3_ConflictRejected ==
    (PublicRoutesGiven \cap DisabledRoutesGiven # {}) =>
        (context = Undefined /\ written = <<>>)

\* C3 (amended): such a configuration is accepted; the run writes the five core
\* files and every route kind listed in both lists is not emitted.
C3_DisabledWins ==
    (pc = "done" /\ PublicRoutesGiven \cap DisabledRoutesGiven # {}) =>
        /\ CoreFiles \subseteq Range(written)
        /\ \A k \in PublicRoutesGiven \cap DisabledRoutesGiven : ~RouteEmitted(k)

C3_Witness ==
    /\ pc = "done"
    /\ "getAll" \in PublicRoutesGiven \cap DisabledRoutesGiven
    /\ ~RouteEmitted("getAll")
    /\ Len(written) >= Cardinality(CoreFiles)

C6_OwnershipAuthRules ==
    (pc = "done" /\ authTypeOf(options) = "ownership") =>
        /\ \A k \in {"update", "delete"} :
              AuthRule(k).ownershipCheck /\ AuthRule(k).superadminBypass
        /\ ~AuthRule("create").ownershipCheck
        /\ IsDefined(Get(files.controller).createOverride)

\* C7 (as claimed): with role auth and a non-empty role list every mutating rule
\* carries the configured roles and the bypass, and no ownership check.
C7_RoleAuthRules ==
    (pc = "done" /\ authTypeOf(options) = "role" /\ IsDefined(rolesOf(options))) =>
        \A k \in MutatingKinds :
            /\ AuthRule(k).roles = Get(rolesOf(options))
            /\ AuthRule(k).superadminBypass
            /\ ~AuthRule(k).ownershipCheck

\* C8 (as claimed): role auth with a missing or empty role list is rejected: no
\* context is produced and nothing is rendered or written.
C8_RoleWithoutRolesRejected ==
    RoleAuthWithoutRoles =>
        (context = Undefined /\ files = NoFiles /\ written = <<>>)

C10_AllOrNothing ==
    IF RoleAuthWithoutRoles
    THEN files = NoFiles /\ written = <<>>
    ELSE pc = "done" =>
            Range(written) = {n \in Range(FileOrder) : IsDefined(files[n])}

\* C11 (as claimed): when the options violate several rules at once, the run
\* ends in failure and reports an error for every violated rule.
C11_AllErrorsListed ==
    (Cardinality(ViolatedRules) >= 2 /\ pc # "start") =>
        (pc = "failed" /\ ViolatedRules \subseteq ReportedErrors)

\* C12 (as claimed): for every auth type, the chain of an emitted route holds
\* the authentication middleware exactly when the route is not public.
C12_AuthIffNotPublic ==
    pc = "done" =>
        \A k \in DOMAIN routes : RouteAuthenticated(k) <=> ~RouteDeclaredPublic(k)

\* C12 (amended): the chain of an emitted route holds the authentication
\* middleware exactly when the auth type is not none, create is not listed in
\* publicRoutes and the route is not a read route listed in publicRoutes; the
\* chain of a public route never holds it.
C12_AuthIffNeededAndNotPublic ==
    pc = "done" =>
        \A k \in DOMAIN routes :
            /\ RouteAuthenticated(k) <=>
                  /\ authTypeOf(options) # "none"
                  /\ "create" \notin PublicRoutesGiven
                  /\ ~(k \in ReadKinds /\ k \in PublicRoutesGiven)
            /\ RouteDeclaredPublic(k) => ~RouteAuthenticated(k)

C12_Witness ==
    /\ pc = "done"
    /\ options.auth = Some("ownership")
    /\ options.publicRoutes = Some({"getAll"})
    /\ {"getAll", "getById", "create"} \subseteq DOMAIN routes
    /\ ~RouteAuthenticated("getAll")
    /\ RouteAuthenticated("getById")
    /\ RouteAuthenticated("create")

\* C13: the files are written in the order model, DTO, service, controller,
\* route, then the admin route exactly when withAdmin, the test exactly when
\* withTests, the migration exactly when not skipMigration, and nothing else.
C13_PlanOrder ==
    /\ pc \in {"register", "done"} => written = ExpectedPlan
    /\ pc = "write" =>
          (Len(written) <= Len(ExpectedPlan)
           /\ written = SubSeq(ExpectedPlan, 1, Len(written)))

C13_Witness ==
    /\ pc = "done"
    /\ options.withAdmin /\ options.withTests /\ ~options.skipMigration
    /\ written = <<"model", "dto", "service", "controller", "route",
                   "adminRoute", "test", "migration">>

\* C14 (as claimed): with withAdmin set, nothing is written unless the admin
\* route declares a non-empty allowedRoles.
C14_AdminNeedsRoles ==
    (options.withAdmin /\ written # <<>>) =>
        HbsIfArray(Get(files.adminRoute).allowedRoles)

Returned(op) == svcPc = "returned" /\ call.op = op

\* the call changed the table through its statement: create always does, update
\* and delete when a row with the id existed
Successful ==
    call.op = "create" \/ (call.op \in {"update", "delete"} /\ call.id \in DOMAIN snapshot)

AfterHooks == {"afterCreate", "afterUpdate", "afterDelete"}

\* C16: with all six hooks overridden, a call that has returned from a successful
\* create, update or delete has invoked exactly its own before-hook, then its
\* statement, then its own after-hook; while it runs, what it has done so far
\* is a prefix of that.
C16_HookOrder ==
    (overrides = HookKinds /\ call.op \in {"create", "update", "delete"} /\ Successful) =>
        LET expected == <<beforeHookOf(call.op), "db",
                          CASE call.op = "create" -> "afterCreate"
                            [] call.op = "update" -> "afterUpdate"
                            [] call.op = "delete" -> "afterDelete">>
        IN  /\ Len(hookTrace) <= 3
            /\ hookTrace = SubSeq(expected, 1, Len(hookTrace))
            /\ svcPc = "returned" => hookTrace = expected

C16_Witness ==
    /\ Returned("update")
    /\ overrides = HookKinds
    /\ calls >= 3
    /\ call.id \in DOMAIN snapshot
    /\ hookTrace = <<"beforeUpdate", "db", "afterUpdate">>

\* C17: delete(id) invokes beforeDelete before its statement, and afterDelete
\* only when a row with that id was removed; on an id with no row it invokes
\* beforeDelete, never afterDelete, and returns false.
C17_AfterDeleteOnlyOnRemoval ==
    ({"beforeDelete", "afterDelete"} \subseteq overrides /\ call.op = "delete") =>
        /\ hookTrace # <<>> => hookTrace[1] = "beforeDelete"
        /\ svcPc = "returned" =>
              /\ ret = (call.id \in DOMAIN snapshot)
              /\ call.id \notin DOMAIN table
              /\ hookTrace = IF call.id \in DOMAIN snapshot
                             THEN <<"beforeDelete", "db", "afterDelete">>
                             ELSE <<"beforeDelete", "db">>

C17_Witness ==
    /\ Returned("delete")
    /\ overrides = HookKinds
    /\ snapshot # NoRows
    /\ call.id \notin DOMAIN snapshot
    /\ hookTrace = <<"beforeDelete", "db">>
    /\ ret = FALSE

\* C18: getAll returns exactly the rows created and not deleted since, as last
\* handed back by create or update; getById(id) returns that row for such an id
\* and null for any other id.
C18_ReadsSeeLiveRows ==
    /\ Returned("getAll") =>
          /\ Range(ret) = {live[j] : j \in DOMAIN live}
          /\ Len(ret) = Cardinality(DOMAIN live)
    /\ Returned("getById") =>
          ret = IF call.id \in DOMAIN live THEN Some(live[call.id]) ELSE Undefined

C18_Witness ==
    /\ Returned("getById")
    /\ call.id < nextId
    /\ call.id \notin DOMAIN live
    /\ live # NoRows
    /\ ret = Undefined

\* C19: update and delete on an id with no row return null and false, leave the
\* table as it was and invoke no after-hook.
C19_MissingIdNoEffect ==
    (call.op \in {"update", "delete"} /\ call.id \notin DOMAIN snapshot) =>
        /\ table = snapshot
        /\ Range(hookTrace) \cap AfterHooks = {}
        /\ Returned("update") => ret = Undefined
        /\ Returned("delete") => ret = FALSE

C19_Witness ==
    /\ Returned("update")
    /\ overrides = HookKinds
    /\ snapshot # NoRows
    /\ call.id \notin DOMAIN snapshot
    /\ ret = Undefined
    /\ table = snapshot

C22_AdminSuperadminOnly ==
    adminOutcome = "handled" => adminRequest.caller = Some("superadmin")

\* the place of a middleware in the order authentication, role, custom, validation
MiddlewareRank(m) ==
    CASE m = "requireAuth" -> 1
      [] m = "requireRole" -> 2
      [] m = "custom" -> 3
      [] m = "validate" -> 4

\* C23: in the chain of every registered route the middleware come in the order
\* authentication, role, custom, validation, and the validation middleware is
\* present on create and update only.
C23_ChainOrder ==
    pc = "registered" =>
        \A k \in DOMAIN routes :
            LET chain == routes[k].chain IN
            /\ \A i \in DOMAIN chain : \A j \in DOMAIN chain :
                  i < j => MiddlewareRank(chain[i]) <= MiddlewareRank(chain[j])
            /\ "validate" \in Range(chain) => k \in {"create", "update"}

C23_Witness ==
    /\ pc = "registered"
    /\ {"getAll", "create", "delete"} \subseteq DOMAIN routes
    /\ routes["create"].chain = <<"requireAuth", "requireRole", "custom", "custom", "validate">>
    /\ routes["delete"].chain = <<"requireAuth", "requireRole", "custom", "custom">>
    /\ routes["getAll"].chain = <<"custom", "custom">>

\* C24 (as claimed): with auth none the rule of every mutating route is empty;
\* with auth custom the rule of every mutating route has the custom check, no
\* roles and no ownership check.
C24_RulesOfAuthType ==
    pc = "done" =>
        \A k \in MutatingKinds :
            /\ authTypeOf(options) = "none" =>
                  (AuthRule(k).roles = <<>> /\ ~AuthRule(k).ownershipCheck
                   /\ ~AuthRule(k).customCheck /\ ~AuthRule(k).superadminBypass)
            /\ authTypeOf(options) = "custom" =>
                  (AuthRule(k).customCheck /\ AuthRule(k).roles = <<>>
                   /\ ~AuthRule(k).ownershipCheck)

\* C25: every file is written after every generated file it imports, for every
\* combination of withAdmin, withTests and skipMigration; so each import names
\* a file of the plan and the imports have no cycle.
C25_DependencyOrder ==
    /\ \A i \in DOMAIN written :
          dependsOn(written[i]) \subseteq {written[j] : j \in 1..(i - 1)}
    /\ pc \in {"register", "done"} =>
          \A n \in Range(written) : dependsOn(n) \subseteq Range(written)

C25_Witness ==
    /\ pc = "done"
    /\ options.withAdmin /\ options.withTests /\ options.skipMigration
    /\ written = <<"model", "dto", "service", "controller", "route", "adminRoute", "test">>

\* C26 (as claimed): ownership auth with the ownership field given as the empty
\* string is rejected: no context is built and nothing is written.
C26_EmptyOwnershipFieldRejected ==
    (authTypeOf(options) = "ownership" /\ options.ownershipField = Some(<<>>)) =>
        (context = Undefined /\ written = <<>>)

\* an entity name made of letters only, and of at least one
AlphabeticName(n) == n # <<>> /\ \A i \in DOMAIN n : IsLower(n[i]) \/ IsUpper(n[i])

\* C27 (as claimed): an empty entity name or one with a character that is not a
\* letter yields no naming form and no file; for the other names tableName is
\* entityNamePlural.
C27_InvalidNameRejected ==
    IF AlphabeticName(options.entityName)
    THEN IsDefined(context) => Get(context).tableName = Get(context).entityNamePlural
    ELSE context = Undefined /\ files = NoFiles /\ written = <<>>

\* C28: after any interleaving of ArticleService.create calls no two stored
\* articles share a slug, and a create whose slug already exists ends in
\* BadRequestError (never in another failure), having inserted nothing and
\* not having run afterCreate.
C28_SlugUniqueBadRequest ==
    /\ \A i, j \in DOMAIN articles :
          i # j => articles[i].slug # articles[j].slug
    /\ \A p \in Slots :
          /\ artOutcome[p] \in {"idle", "pending", "created", "BadRequestError"}
          /\ artOutcome[p] = "BadRequestError" => artResult[p] = Undefined

\* C29: every stored password is hashPassword of the password most recently
\* supplied for that user, and never a supplied plaintext value.
C29_StoredPasswordHashed ==
    \A id \in DOMAIN users :
        /\ users[id].password = hashPassword(supplied[id])
        /\ users[id].password \notin PasswordInputs

\* C30: an article created through ArticleController.create has the
\* authenticated caller's id as authorId, whatever authorId the body carries;
\* without an authenticated user the call ends in BadRequestError before the
\* service is called, so nothing is inserted.
C30_AuthorIsCaller ==
    /\ \A p \in Slots :
          /\ artPc[p] \in {"insert", "afterCreate"} \/ artOutcome[p] = "created"
                => /\ IsDefined(artRequest[p].user)
                   /\ artRequest[p].data.authorId = Get(artRequest[p].user).id
          /\ IsDefined(artResult[p])
                => /\ Get(artResult[p]).authorId = Get(artRequest[p].user).id
                   /\ articles[Get(artResult[p]).id] = Get(artResult[p])
          /\ ~IsDefined(artRequest[p].user) /\ artPc[p] # "idle"
                => /\ artPc[p] \in {"create", "done"}
                   /\ artResult[p] = Undefined
                   /\ artPc[p] = "done" => artOutcome[p] = "BadRequestError"
    /\ \A i \in DOMAIN articles :
          \E u \in CallerInputs : IsDefined(u) /\ articles[i].authorId = Get(u).id

C30_Witness ==
    \E p \in Slots :
        /\ artOutcome[p] = "created"
        /\ "authorId" \in DOMAIN artRequest[p].validatedData
        /\ artRequest[p].validatedData.authorId = BodyAuthorId
        /\ Get(artResult[p]).authorId = 7
        /\ \E q \in Slots :
              ~IsDefined(artRequest[q].user) /\ artOutcome[q] = "BadRequestError"

====
